---- MODULE Spec2Model ----
(***************************************************************************)
(* Model of the request layer of kaedys/spark: the single-request path     *)
(* (api.go, request), the paginated fetcher (api.go, getRequestWithPaging) *)
(* and the four list accessors built on it (ListRooms, ListPeople,         *)
(* ListWebhooks, ListMessages).                                            *)
(*                                                                         *)
(* Strings that the code takes apart (Link header values, URLs) are        *)
(* sequences of one-character strings.  Two multi-character tokens are     *)
(* abbreviated to one symbol each: "N" stands for rel="next" and "P" for   *)
(* rel="prev"; neither contains ';' or ' ', so strings.Split treats them   *)
(* as it treats the text they stand for.                                   *)
(***************************************************************************)
EXTENDS Integers, Sequences, FiniteSets, TLC

VARIABLES
    clients,  \* the client values that exist, in order of creation
    self,     \* which of them is the receiver of the call
    httpCli,  \* the package-level transport handle
    input,    \* the argument a resource accessor was called with
    uv,       \* the query parameters the caller passed
    pc,       \* "idle", "loop" (head of the for loop), "returned", "panicked"
    caller,   \* the operation in progress / last finished
    M,        \* the max argument the caller passed
    all,      \* getRequestWithPaging: local all
    max,      \* getRequestWithPaging: local max (remaining budget)
    uri,      \* getRequestWithPaging: local uri; request: the request's URL
    ret,      \* getRequestWithPaging: local ret, the pages accumulated
    err,      \* error returned by request / getRequestWithPaging
    bs,       \* bytes returned by request
    calls,    \* number of httpCli.Do calls made by the current call
    reqs,     \* the requests handed to httpCli.Do, in order
    resps,    \* what httpCli.Do answered, in order
    bodies,   \* per transport call: what happened to res.Body
    items,    \* list accessor: the items returned to its caller
    lerr,     \* list accessor: the error returned to its caller
    rec       \* record accessor: the record returned to its caller

vars == <<clients, self, httpCli, input, uv, pc, caller, M, all, max, uri,
          ret, err, bs, calls, reqs, resps, bodies, items, lerr, rec>>

\* The receiver c of the method being executed.
c == clients[self]

(***************************************************************************)
(* Bounds of the model.                                                    *)
(***************************************************************************)
MaxCalls == 3      \* transport calls explored per paginated fetch
MaxArg == 5        \* largest max argument a caller passes
MaxPageMax == 3    \* largest ceiling given to SetMaxPerPage
IntBits == 7       \* width of the modelled Go int
MaxClients == 2    \* client values created in one behaviour

DefaultPageMax == 50

MinInt == 0 - 2 ^ (IntBits - 1)
MaxInt == 2 ^ (IntBits - 1) - 1

\* Go int arithmetic wraps around on overflow.
Wrap(x) == ((x - MinInt) % (2 ^ IntBits)) + MinInt

Min(a, b) == IF a < b THEN a ELSE b

(***************************************************************************)
(* Errors.  The nil error is a value of its own.                           *)
(***************************************************************************)
NilErr == [kind |-> "nil"]
mockErr == [kind |-> "transport"]
readErr == [kind |-> "read"]
jsonErr == [kind |-> "json"]
ParseErr(u) == [kind |-> "parse", url |-> u]

\* fmt.Errorf("HTTP Status %d: %q", code, text)
StatusErr(code, text) == [kind |-> "status", code |-> code, text |-> text]

\* fmt.Errorf("%v && %v", reqErr, jsonErr)
BothErr(reqE, jsonE) == [kind |-> "both", req |-> reqE, json |-> jsonE]

(***************************************************************************)
(* Strings and URLs.                                                       *)
(***************************************************************************)
RelNext == <<"N">>

\* Index of the first occurrence of "; " in s at or after i, 0 when none.
RECURSIVE IndexSep(_, _)
IndexSep(s, i) ==
    IF i + 1 > Len(s) THEN 0
    ELSE IF s[i] = ";" /\ s[i + 1] = " " THEN i
    ELSE IndexSep(s, i + 1)

\* strings.Split(l, "; ")
RECURSIVE Split(_)
Split(s) ==
    LET i == IndexSep(s, 1) IN
    IF i = 0 THEN <<s>>
    ELSE <<SubSeq(s, 1, i - 1)>> \o Split(SubSeq(s, i + 2, Len(s)))

\* http.NewRequest fails exactly when url.Parse does; over the alphabet used
\* here that is a URL whose first character is ':' ("missing protocol
\* scheme").
\* An http.NewRequest that accepts every URL.
NewRequestFails_Never(u) == FALSE

NewRequestFails(u) == Len(u) >= 1 /\ u[1] = ":"

\* The part of a URL before '?', and the part after it.
RECURSIVE IndexQ(_, _)
IndexQ(s, i) ==
    IF i > Len(s) THEN 0 ELSE IF s[i] = "?" THEN i ELSE IndexQ(s, i + 1)

PathOf(u) ==
    LET i == IndexQ(u, 1) IN IF i = 0 THEN u ELSE SubSeq(u, 1, i - 1)

RawQueryOf(u) ==
    LET i == IndexQ(u, 1) IN IF i = 0 THEN <<>> ELSE SubSeq(u, i + 1, Len(u))

\* url.Values: for every key the list of its values.  A key and a value
\* are one symbol each in a URL.
ParamKeys == {"max", "after", "roomId"}
NoParams == [k \in ParamKeys |-> <<>>]

\* params.Add(k, v)
ParamAdd(params, k, v) == [params EXCEPT ![k] = Append(@, v)]

\* req.URL.Query(): the pairs k=v of the raw query, separated by '&'.
RECURSIVE ParseQuery(_, _)
ParseQuery(q, acc) ==
    IF Len(q) < 3 THEN acc
    ELSE ParseQuery(SubSeq(q, 5, Len(q)), ParamAdd(acc, q[1], q[3]))

\* A request that gets the caller's parameters only.
AddAll_CallerOnly(params, vals) == vals

\* for k, vals := range uv { for _, v := range vals { params.Add(k, v) } }
AddAll(params, vals) == [k \in ParamKeys |-> params[k] \o vals[k]]

\* fmt.Sprintf("%d", n)
FormatInt(n) == ToString(n)

\* Request headers: for every key the list of its values.
HeaderKeys == {"Authorization", "Content-Type"}
NoHeader == [k \in HeaderKeys |-> <<>>]
OldHeader == [k \in HeaderKeys |->
                IF k = "Authorization" THEN <<"Basic old">> ELSE <<"text/plain">>]

\* A Set that appends to the values already there, as Header.Add does.
HeaderSet_Add(h, k, v) == [h EXCEPT ![k] = Append(@, v)]

\* req.Header.Set(k, v)
HeaderSet(h, k, v) == [h EXCEPT ![k] = <<v>>]

\* All requests require these headers
SetHeaders(h, token) ==
    HeaderSet(HeaderSet(h, "Authorization", "Bearer " \o token),
              "Content-Type", "application/json; charset=utf-8")

(***************************************************************************)
(* The Link header of a response: the list of values of res.Header["Link"] *)
(* (the empty list when the header is absent).                             *)
(***************************************************************************)
NoLink == <<>>
LinkNextB == << <<"<", "b", ">", ";", " ", "N">> >>
LinkNextAfter1 ==
    << <<"<", "a", "?", "max", "=", "9", "&", "after", "=", "1", ">", ";", " ", "N">> >>
LinkNextAfter2 ==
    << <<"<", "a", "?", "max", "=", "9", "&", "after", "=", "2", ">", ";", " ", "N">> >>
LinkNextBad == << <<"<", ":", ">", ";", " ", "N">> >>
LinkPrev == << <<"<", "a", ">", ";", " ", "P">> >>
LinkNoSpace == << <<"<", "b", ">", ";", "N">> >>
LinkNoURL == << <<";", " ", "N">> >>
LinkEmpty == << <<>> >>
LinkPrevThenNext ==
    << <<"<", "a", ">", ";", " ", "P", ",", " ", "<", "b", ">", ";", " ", "N">> >>
LinkTwoValues ==
    << <<"<", "a", ">", ";", " ", "P">>, <<"<", "b", ">", ";", " ", "N">> >>

Links == {NoLink, LinkNextB, LinkNextBad, LinkPrev, LinkNoSpace, LinkNoURL,
          LinkEmpty, LinkPrevThenNext, LinkTwoValues}

\* A scan that goes through every value of the header until it finds a
\* next link.
ScanLink_AnyValue(v) ==
    LET nexts == {j \in 1 .. Len(v) :
                    /\ Len(Split(v[j])) >= 2
                    /\ Split(v[j])[2] = RelNext
                    /\ Len(Split(v[j])[1]) >= 2}
    IN
    IF nexts = {} THEN [panic |-> FALSE, found |-> FALSE, uri |-> <<>>]
    ELSE LET j == CHOOSE n \in nexts : \A i \in nexts : n <= i
             first == Split(v[j])[1]
         IN [panic |-> FALSE, found |-> TRUE,
             uri |-> SubSeq(first, 2, Len(first) - 1)]

\* The scan of res.Header at the end of an iteration: what it leaves in
\* found and uri, or that it panics (index or slice bounds out of range).
ScanLink(v) ==
    IF v = <<>> THEN [panic |-> FALSE, found |-> FALSE, uri |-> <<>>]
    ELSE LET spl == Split(v[1]) IN
         IF Len(spl) < 2 THEN [panic |-> TRUE, found |-> FALSE, uri |-> <<>>]
         ELSE IF spl[2] = RelNext
              THEN IF Len(spl[1]) < 2
                   THEN [panic |-> TRUE, found |-> FALSE, uri |-> <<>>]
                   ELSE [panic |-> FALSE, found |-> TRUE,
                         uri |-> SubSeq(spl[1], 2, Len(spl[1]) - 1)]
              ELSE [panic |-> FALSE, found |-> FALSE, uri |-> <<>>]

(***************************************************************************)
(* Response bodies and their decoding by json.Unmarshal into a list        *)
(* envelope (RoomList, People, WebhookList, MessageList).                  *)
(***************************************************************************)
BodyOne == "{\"items\":[{\"id\":\"r1\"}]}"
BodyTwo == "{\"items\":[{\"id\":\"r2\"},{\"id\":\"r3\"}]}"
BodyBad == "<html>"
BodyBoom == "boom"
BodyNone == ""
NilBytes == "<nil>"

Unmarshal(b) ==
    CASE b = BodyOne -> [err |-> NilErr, items |-> <<"r1">>]
      [] b = BodyTwo -> [err |-> NilErr, items |-> <<"r2", "r3">>]
      [] OTHER -> [err |-> jsonErr, items |-> <<>>]

\* res.Status, the status line text that net/http fills in.
StatusText(code) ==
    CASE code = 200 -> "200 OK"
      [] code = 201 -> "201 Created"
      [] code = 204 -> "204 No Content"
      [] OTHER -> "500 Internal Server Error"

(***************************************************************************)
(* What the transport (httpCli.Do) can answer.                             *)
(***************************************************************************)
Resp(doErr, rdErr, status, body, link) ==
    [doErr |-> doErr, readErr |-> rdErr, status |-> status, body |-> body,
     link |-> link]

Responses ==
    {Resp(TRUE, FALSE, 200, BodyOne, NoLink)}
    \cup {Resp(FALSE, TRUE, s, BodyOne, LinkNextB) : s \in {200, 500}}
    \cup {Resp(FALSE, FALSE, s, BodyBoom, l) : s \in {201, 500}, l \in {NoLink, LinkNextB}}
    \cup {Resp(FALSE, FALSE, 200, b, l) : b \in {BodyOne, BodyTwo, BodyBad}, l \in Links}
    \cup {Resp(FALSE, FALSE, 204, BodyNone, NoLink)}
    \cup {Resp(FALSE, FALSE, 200, BodyOne, LinkNextAfter1),
          Resp(FALSE, FALSE, 200, BodyTwo, LinkNextAfter2)}

\* A status test that forgets 204 No Content.
IsSuccess_OnlyOK(status) == status = 200

\* return code should be 200, or 204 for delete methods
IsSuccess(status) == status = 200 \/ status = 204

(***************************************************************************)
(* The client.                                                             *)
(***************************************************************************)
New(token) == [token |-> token, pageMax |-> DefaultPageMax]

NewClient(cl, n) == [token |-> cl.token, pageMax |-> n]

\* A page with a next link, a last page, or a transport error.
FewResponses ==
    {Resp(FALSE, FALSE, 200, BodyOne, LinkNextB),
     Resp(FALSE, FALSE, 200, BodyOne, NoLink),
     Resp(TRUE, FALSE, 200, BodyOne, NoLink)}

\* The values of max a call is made with, and the ceilings a client is
\* derived with.
Args == (0 - 1) .. MaxArg
PageMaxes == (0 - 1) .. MaxPageMax

Tokens == {"mock", "tok"}
Transports == {"T1", "T2"}

\* The base URLs handed to getRequestWithPaging: a plain one, one that
\* already has query parameters, and one no request can be built from.
BaseURIs == {<<"a">>, <<"a", "?", "max", "=", "9", "&", "roomId", "=", "7">>, <<":">>}

PlainURIs == {u \in BaseURIs : Len(u) = 1}

\* The (URL, query parameters) a caller hands to getRequestWithPaging.  A
\* direct call passes no parameters with the plain URLs and max and roomId
\* with the URL that has both already; ListMessages always passes roomId;
\* the other list accessors are called without a filter.
DirectArgs ==
    {[uri |-> u,
      uv |-> IF Len(u) > 1
             THEN [NoParams EXCEPT !["max"] = <<"8">>, !["roomId"] = <<"5">>]
             ELSE NoParams] : u \in BaseURIs}

CallArgs(who) ==
    CASE who = "getRequestWithPaging" -> DirectArgs
      [] who = "ListMessages" ->
           {[uri |-> <<"a">>, uv |-> [NoParams EXCEPT !["roomId"] = <<"123">>]]}
      [] OTHER -> {[uri |-> <<"a">>, uv |-> NoParams]}

PagingCallers == {"getRequestWithPaging", "ListRooms", "ListPeople",
                  "ListWebhooks", "ListMessages"}
ListCallers == PagingCallers \ {"getRequestWithPaging"}

(***************************************************************************)
(* The list accessors: what each makes of the pages and the error that     *)
(* getRequestWithPaging returned.                                          *)
(***************************************************************************)
RECURSIVE RoomsLoop(_, _, _)
RoomsLoop(resp, rooms, reqErr) ==
    IF resp = <<>> THEN [items |-> rooms, err |-> NilErr]
    ELSE LET rl == Unmarshal(Head(resp)) IN
         IF rl.err # NilErr
         THEN [items |-> rooms, err |-> BothErr(reqErr, rl.err)]
         ELSE RoomsLoop(Tail(resp), rooms \o rl.items, reqErr)

ListRooms(resp, reqErr) ==
    IF reqErr # NilErr /\ Len(resp) = 0 THEN [items |-> <<>>, err |-> reqErr]
    ELSE RoomsLoop(resp, <<>>, reqErr)

RECURSIVE PeopleLoop(_, _, _)
PeopleLoop(resp, people, reqErr) ==
    IF resp = <<>> THEN [items |-> people, err |-> NilErr]
    ELSE LET pl == Unmarshal(Head(resp)) IN
         IF pl.err # NilErr
         THEN [items |-> people, err |-> BothErr(reqErr, pl.err)]
         ELSE PeopleLoop(Tail(resp), people \o pl.items, reqErr)

ListPeople(resp, reqErr) ==
    IF reqErr # NilErr /\ Len(resp) = 0 THEN [items |-> <<>>, err |-> reqErr]
    ELSE PeopleLoop(resp, <<>>, reqErr)

RECURSIVE WebhooksLoop(_, _, _)
WebhooksLoop(resp, webhooks, reqErr) ==
    IF resp = <<>> THEN [items |-> webhooks, err |-> reqErr]
    ELSE LET w == Unmarshal(Head(resp)) IN
         IF w.err # NilErr
         THEN [items |-> webhooks, err |-> BothErr(reqErr, w.err)]
         ELSE WebhooksLoop(Tail(resp), webhooks \o w.items, reqErr)

ListWebhooks(resp, reqErr) ==
    IF reqErr # NilErr /\ Len(resp) = 0 THEN [items |-> <<>>, err |-> reqErr]
    ELSE WebhooksLoop(resp, <<>>, reqErr)

\* The loop tests reqErr, not jsonErr, after decoding a page.
RECURSIVE MessagesLoop(_, _, _)
MessagesLoop(resp, messages, reqErr) ==
    IF resp = <<>> THEN [items |-> messages, err |-> reqErr]
    ELSE LET ml == Unmarshal(Head(resp)) IN
         IF reqErr # NilErr
         THEN [items |-> messages, err |-> BothErr(reqErr, ml.err)]
         ELSE MessagesLoop(Tail(resp), messages \o ml.items, reqErr)

ListMessages(resp, reqErr) ==
    IF reqErr # NilErr /\ Len(resp) = 0 THEN [items |-> <<>>, err |-> reqErr]
    ELSE MessagesLoop(resp, <<>>, reqErr)

\* The record an accessor returns when it returns none.
NilRec == "<nil>"

\* A room is written by the string that identifies it in a page.
TitleOf(room) == room

NotFoundErr(name) == [kind |-> "notfound", name |-> name]

\* for _, r := range allRooms { if r.Title == roomName { return r, nil } }
RECURSIVE FirstTitled(_, _)
FirstTitled(rooms, roomName) ==
    IF rooms = <<>> THEN NilRec
    ELSE IF TitleOf(Head(rooms)) = roomName THEN Head(rooms)
    ELSE FirstTitled(Tail(rooms), roomName)

\* What GetRoomByName makes of the result of ListRooms(0, nil).
RoomByName(allRooms, roomName) ==
    IF allRooms.err # NilErr THEN [rec |-> NilRec, err |-> allRooms.err]
    ELSE LET r == FirstTitled(allRooms.items, roomName) IN
         IF r # NilRec THEN [rec |-> r, err |-> NilErr]
         ELSE [rec |-> NilRec, err |-> NotFoundErr(roomName)]

\* What the accessor who returns to its caller once getRequestWithPaging
\* has returned (resp, reqErr) to it; in is the accessor's argument.
Accessor(who, resp, reqErr, in) ==
    LET list(l) == [items |-> l.items, err |-> l.err, rec |-> NilRec] IN
    CASE who = "ListRooms" -> list(ListRooms(resp, reqErr))
      [] who = "ListPeople" -> list(ListPeople(resp, reqErr))
      [] who = "ListWebhooks" -> list(ListWebhooks(resp, reqErr))
      [] who = "ListMessages" -> list(ListMessages(resp, reqErr))
      [] who = "GetRoomByName" ->
           LET found == RoomByName(ListRooms(resp, reqErr), in.Name) IN
           [items |-> <<>>, err |-> found.err, rec |-> found.rec]
      [] OTHER -> [items |-> <<>>, err |-> NilErr, rec |-> NilRec]

(***************************************************************************)
(* Pieces of getRequestWithPaging.                                         *)
(***************************************************************************)
\* A "max" parameter that is always the ceiling.
MaxParam_Ceiling(isAll, remaining, pageMax) == pageMax

\* The value force-set for the "max" query parameter.
MaxParam(isAll, remaining, pageMax) ==
    IF isAll \/ remaining > pageMax THEN pageMax ELSE remaining

\* A budget decremented by the ceiling used in this call.
NextBudget_Used(remaining, pageMax) ==
    Wrap(remaining - (IF remaining > pageMax THEN pageMax ELSE remaining))

\* max -= c.pageMax
NextBudget(remaining, pageMax) == Wrap(remaining - pageMax)

\* A loop that goes on only while budget is left.
LoopCond_Positive(isAll, remaining) == remaining > 0

\* for all || max > 0
LoopCond(isAll, remaining) == isAll \/ remaining > 0

\* Closing only the body of the latest response.
RunDefers_LastOnly(bds) ==
    [i \in DOMAIN bds |->
        IF bds[i].deferred /\ i = Len(bds)
        THEN [bds[i] EXCEPT !.closed = TRUE] ELSE bds[i]]

\* The deferred res.Body.Close() calls, run when the function returns or
\* panics: every body whose Close was deferred is closed.
RunDefers(bds) ==
    [i \in DOMAIN bds |->
        IF bds[i].deferred THEN [bds[i] EXCEPT !.closed = TRUE] ELSE bds[i]]

\* An error return that drops the pages fetched so far.
ErrReturn_NoPages(pages, e) == [ret |-> <<>>, err |-> e]

\* What an error return hands back: the pages so far and the error.
ErrReturn(pages, e) == [ret |-> pages, err |-> e]

\* The body record of one transport call.
\* A body that is read and scheduled for closing whatever Do returned.
BodyOf_Always(r) == [deferred |-> TRUE, read |-> TRUE, closed |-> FALSE]

BodyOf(r) ==
    [deferred |-> ~r.doErr, read |-> ~r.doErr, closed |-> FALSE]

(***************************************************************************)
(* The single-request path.                                                *)
(***************************************************************************)
\* A request that judges the status without looking at the read's error.
RequestResult_IgnoresReadErr(r) ==
    IF r.doErr THEN [bs |-> NilBytes, err |-> mockErr]
    ELSE IF ~IsSuccess(r.status)
         THEN [bs |-> NilBytes, err |-> StatusErr(r.status, r.body)]
    ELSE [bs |-> r.body, err |-> NilErr]

\* A request that classifies the status before it looks at the read's error.
RequestResult_StatusFirst(r) ==
    IF r.doErr THEN [bs |-> NilBytes, err |-> mockErr]
    ELSE IF ~IsSuccess(r.status)
         THEN [bs |-> NilBytes, err |-> StatusErr(r.status, r.body)]
    ELSE IF r.readErr THEN [bs |-> NilBytes, err |-> readErr]
    ELSE [bs |-> r.body, err |-> NilErr]

\* What request returns for the transport's answer r.
RequestResult(r) ==
    IF r.doErr THEN [bs |-> NilBytes, err |-> mockErr]
    ELSE IF r.readErr THEN [bs |-> NilBytes, err |-> readErr]
    ELSE IF ~IsSuccess(r.status)
         THEN [bs |-> NilBytes, err |-> StatusErr(r.status, r.body)]
    ELSE [bs |-> r.body, err |-> NilErr]

\* The request as request hands it to httpCli.Do: req arrives with URL u,
\* query parameters params and headers h.
SentRequest(method, u, params, h, token, via) ==
    [method |-> method, uri |-> u, path |-> PathOf(u), params |-> params,
     header |-> SetHeaders(h, token), via |-> via]

(***************************************************************************)
(* Initial state: a client built by New, no call made yet.                 *)
(***************************************************************************)
\* Before any call: no request has been handed to request.
NoInput == [header |-> NoHeader]
InitFor(tokens) ==
    /\ \E t \in tokens : clients = <<New(t)>>
    /\ self = 1
    /\ httpCli = "T1"
    /\ input = NoInput
    /\ uv = NoParams
    /\ pc = "idle"
    /\ caller = "none"
    /\ M = 0
    /\ all = FALSE
    /\ max = 0
    /\ uri = <<>>
    /\ ret = <<>>
    /\ err = NilErr
    /\ bs = NilBytes
    /\ calls = 0
    /\ reqs = <<>>
    /\ resps = <<>>
    /\ bodies = <<>>
    /\ items = <<>>
    /\ lerr = NilErr
    /\ rec = NilRec

Init == InitFor({"mock"})

\* A SetMaxPerPage that writes the ceiling into its receiver.
SetMaxPerPageValue_InPlace(cls, i, n) == [cls EXCEPT ![i].pageMax = n]

\* The client values after clients[i].SetMaxPerPage(n): the receiver is
\* left alone and a new value is created.
SetMaxPerPageValue(cls, i, n) == Append(cls, NewClient(cls[i], n))

\* clients[i].SetMaxPerPage(n), at any moment.
SetMaxPerPage(i, n) ==
    /\ i \in DOMAIN clients
    /\ Len(clients) < MaxClients
    /\ clients' = SetMaxPerPageValue(clients, i, n)
    /\ UNCHANGED <<self, httpCli, input, uv, pc, caller, M, all, max, uri,
                   ret, err, bs, calls, reqs, resps, bodies, items, lerr, rec>>

\* c = New(token).SetMaxPerPage(n): a caller that wants another ceiling
\* derives its client from the one New built, before it makes a call.
SetMaxPerPageBeforeCall(n) ==
    /\ pc = "idle"
    /\ Len(clients) = 1
    /\ SetMaxPerPage(1, n)

\* The single-request helpers, and the HTTP method each one uses.
SingleCallers == {"request", "getRequest", "postRequest", "putRequest",
                  "deleteRequest"}
MethodOf(who) ==
    CASE who = "postRequest" -> "POST"
      [] who = "putRequest" -> "PUT"
      [] who = "deleteRequest" -> "DELETE"
      [] OTHER -> "GET"

\* What helper returns to its caller for URL u when the transport answers r:
\* all but request build the request themselves, which can fail.
HelperResult(helper, u, r) ==
    IF helper # "request" /\ NewRequestFails(u)
    THEN [bs |-> NilBytes, err |-> ParseErr(u)]
    ELSE RequestResult(r)

\* clients[i].helper(u, ...) called by who (the helper itself when it is
\* called directly): the request is for URL u, with the query parameters
\* vals added by getRequest and the headers h it had when request got it,
\* and r is the transport's answer.
helperCall(i, who, helper, u, vals, h, r) ==
    LET fails == helper # "request" /\ NewRequestFails(u)
        res == HelperResult(helper, u, r)
        params == AddAll(ParseQuery(RawQueryOf(u), NoParams), vals)
    IN
    /\ self' = i
    /\ bs' = res.bs
    /\ err' = res.err
    /\ pc' = "returned"
    /\ caller' = who
    /\ uri' = u
    /\ uv' = vals
    /\ reqs' = IF fails THEN <<>>
               ELSE <<SentRequest(MethodOf(helper), u, params, h,
                                  clients[i].token, httpCli)>>
    /\ resps' = IF fails THEN <<>> ELSE <<r>>
    /\ calls' = IF fails THEN 0 ELSE 1
    /\ bodies' = IF fails THEN <<>> ELSE RunDefers(<<BodyOf(r)>>)
    /\ M' = 0
    /\ all' = FALSE
    /\ max' = 0
    /\ ret' = <<>>
    /\ items' = <<>>
    /\ UNCHANGED <<clients, httpCli>>

\* clients[i].request(req), called with a request the caller built for u
\* and gave the headers h; the transport answers with some r.
request(i, u, h) ==
    /\ pc = "idle"
    /\ i \in DOMAIN clients
    /\ \E r \in Responses : helperCall(i, "request", "request", u, NoParams, h, r)
    /\ input' = [header |-> h]
    /\ lerr' = NilErr
    /\ UNCHANGED rec

\* clients[i].getRequest(u, vals)
getRequest(i, u, vals) ==
    /\ pc = "idle"
    /\ i \in DOMAIN clients
    /\ \E r \in Responses :
         helperCall(i, "getRequest", "getRequest", u, vals, NoHeader, r)
    /\ lerr' = NilErr
    /\ UNCHANGED <<input, rec>>

\* clients[i].postRequest(u, body), putRequest and deleteRequest
bodyRequest(i, who, u) ==
    /\ pc = "idle"
    /\ i \in DOMAIN clients
    /\ \E r \in Responses : helperCall(i, who, who, u, NoParams, NoHeader, r)
    /\ lerr' = NilErr
    /\ UNCHANGED <<input, rec>>

postRequest(i, u) == bodyRequest(i, "postRequest", u)
putRequest(i, u) == bodyRequest(i, "putRequest", u)
deleteRequest(i, u) == bodyRequest(i, "deleteRequest", u)

\* getRequestWithPaging returns (pages, e) to who; a list accessor then
\* decodes the pages.  The deferred closes run.
Returns(who, pages, e, bds) ==
    /\ pc' = "returned"
    /\ ret' = pages
    /\ err' = e
    /\ bodies' = RunDefers(bds)
    /\ LET a == Accessor(who, pages, e, input') IN
       /\ items' = a.items
       /\ lerr' = a.err
       /\ rec' = a.rec

\* Entry of clients[i].getRequestWithPaging(u, vals, m), called by who:
\* the locals are set up and the loop condition is tested for the first
\* time.
pagingEntry(i, who, u, vals, m) ==
    /\ self' = i
    /\ caller' = who
    /\ M' = m
    /\ all' = (m = 0)
    /\ max' = m
    /\ uri' = u
    /\ uv' = vals
    /\ bs' = NilBytes
    /\ calls' = 0
    /\ reqs' = <<>>
    /\ resps' = <<>>
    /\ IF LoopCond(m = 0, m)
       THEN /\ pc' = "loop"
            /\ ret' = <<>>
            /\ err' = NilErr
            /\ bodies' = <<>>
            /\ items' = <<>>
            /\ lerr' = NilErr
            /\ rec' = NilRec
       ELSE Returns(who, <<>>, NilErr, <<>>)
    /\ UNCHANGED <<clients, httpCli>>

\* clients[i].getRequestWithPaging(u, vals, m), called directly or by a list
\* accessor who that has no argument to validate.
getRequestWithPaging(i, who, u, vals, m) ==
    /\ pc = "idle"
    /\ i \in DOMAIN clients
    /\ input' = [uri |-> u]
    /\ pagingEntry(i, who, u, vals, m)

\* An iteration whose http.NewRequest fails: no transport call is made.
pagingNewRequestFails ==
    /\ pc = "loop"
    /\ NewRequestFails(uri)
    /\ input' = input
    /\ LET out == ErrReturn(ret, ParseErr(uri)) IN
       Returns(caller, out.ret, out.err, bodies)
    /\ UNCHANGED <<clients, self, httpCli, uv, caller, M, all, max, uri, bs,
                   calls, reqs, resps>>

\* A request whose "max" is added to the values already there.
PagingRequest_AddMax(u, vals, mp, token, via) ==
    LET params == AddAll(ParseQuery(RawQueryOf(u), NoParams), vals) IN
    [method |-> "GET", uri |-> u, path |-> PathOf(u),
     params |-> ParamAdd(params, "max", FormatInt(mp)),
     max |-> mp,
     header |-> SetHeaders(NoHeader, token), via |-> via]

\* The request an iteration builds: the parameters of the current URL, the
\* caller's parameters added to them, and "max" overwritten with mp.
PagingRequest(u, vals, mp, token, via) ==
    LET params == AddAll(ParseQuery(RawQueryOf(u), NoParams), vals) IN
    [method |-> "GET", uri |-> u, path |-> PathOf(u),
     params |-> [params EXCEPT !["max"] = <<FormatInt(mp)>>],
     max |-> mp,
     header |-> SetHeaders(NoHeader, token), via |-> via]

\* An iteration that reaches the transport, which answers r.
pagingRoundTrip(r) ==
    /\ pc = "loop"
    /\ input' = input
    /\ ~NewRequestFails(uri)
    /\ calls < MaxCalls
    /\ LET mp == MaxParam(all, max, c.pageMax)
           nb == NextBudget(max, c.pageMax)
           bds == Append(bodies, BodyOf(r))
           scan == ScanLink(r.link)
       IN
       /\ max' = nb
       /\ reqs' = Append(reqs, PagingRequest(uri, uv, mp, c.token, httpCli))
       /\ resps' = Append(resps, r)
       /\ calls' = calls + 1
       /\ IF r.doErr
          THEN /\ LET out == ErrReturn(ret, mockErr) IN
                  Returns(caller, out.ret, out.err, bds)
               /\ UNCHANGED uri
          ELSE IF r.readErr
          THEN /\ LET out == ErrReturn(ret, readErr) IN
                  Returns(caller, out.ret, out.err, bds)
               /\ UNCHANGED uri
          ELSE IF ~IsSuccess(r.status)
          THEN /\ LET out == ErrReturn(ret, StatusErr(r.status, StatusText(r.status))) IN
                  Returns(caller, out.ret, out.err, bds)
               /\ UNCHANGED uri
          ELSE IF scan.panic
          THEN /\ pc' = "panicked"
               /\ ret' = Append(ret, r.body)
               /\ bodies' = RunDefers(bds)
               /\ UNCHANGED <<uri, err, items, lerr, rec>>
          ELSE IF scan.found /\ LoopCond(all, nb)
          THEN /\ pc' = "loop"
               /\ ret' = Append(ret, r.body)
               /\ uri' = scan.uri
               /\ bodies' = bds
               /\ UNCHANGED <<err, items, lerr, rec>>
          ELSE /\ Returns(caller, Append(ret, r.body), NilErr, bds)
               /\ uri' = IF scan.found THEN scan.uri ELSE uri
    /\ UNCHANGED <<clients, self, httpCli, uv, caller, M, all, bs>>

(***************************************************************************)
(* The resource accessors that return one record or none.  Each validates  *)
(* its arguments, calls one single-request helper and decodes the answer.  *)
(***************************************************************************)
\* A record argument is a pointer: nil, or a record with its fields.
NilArg == [nil |-> TRUE]
ZeroRec == "<zero>"       \* a record none of whose fields was decoded
BodyRec == "{\"id\":\"r1\"}"

\* fmt.Errorf(msg) of a validation
ValidationErr(msg) == [kind |-> "validation", msg |-> msg]

\* json.Unmarshal(resp, &record)
UnmarshalRecord(b) ==
    CASE b = BodyRec -> [rec |-> "r1", err |-> NilErr]
      [] b \in {BodyOne, BodyTwo} -> [rec |-> ZeroRec, err |-> NilErr]
      [] OTHER -> [rec |-> ZeroRec, err |-> jsonErr]

\* fmt.Sprintf("%s/%s", URL, id)
ItemURL(id) == <<"a", "/", id>>

\* The answers of the transport to a request for one record.
RecordResponses ==
    {Resp(TRUE, FALSE, 200, BodyRec, NoLink),
     Resp(FALSE, TRUE, 200, BodyRec, NoLink),
     Resp(FALSE, FALSE, 500, BodyBoom, NoLink),
     Resp(FALSE, FALSE, 200, BodyRec, NoLink),
     Resp(FALSE, FALSE, 200, BodyBad, NoLink),
     Resp(FALSE, FALSE, 204, BodyNone, NoLink)}

\* if id == "" { return nil, fmt.Errorf(msg) }
Required(v, msg) == IF v = "" THEN ValidationErr(msg) ELSE NilErr

\* The first error of a list of checks, nil when all pass.
RECURSIVE FirstErr(_)
FirstErr(checks) ==
    IF checks = <<>> THEN NilErr
    ELSE IF Head(checks) # NilErr THEN Head(checks)
    ELSE FirstErr(Tail(checks))

ValidateUpdateRoomName(roomID, newName) ==
    FirstErr(<<Required(roomID, "no room ID specified"),
               Required(newName, "no room name specified")>>)

ValidateNewMessage(m) ==
    IF m.nil THEN ValidationErr("nil message")
    ELSE IF m.RoomID = "" /\ m.ToPersonEmail = "" /\ m.ToPersonID = ""
    THEN ValidationErr("message requires a room ID, person ID, or email to send to")
    ELSE NilErr

ValidateNewPerson(p) ==
    IF p.nil THEN ValidationErr("nil person")
    ELSE IF Len(p.Emails) = 0 THEN ValidationErr("no email specified")
    ELSE NilErr

ValidatePerson(p) ==
    IF p.nil THEN ValidationErr("nil person")
    ELSE Required(p.ID, "no person ID specified")

\* A CreateWebhook that does not look at the event.
ValidateNewWebhook_NoEvent(w) ==
    IF w.nil THEN ValidationErr("nil webhook")
    ELSE FirstErr(<<Required(w.Name, "no webhook name specified"),
                    Required(w.TargetURL, "no webhook target URL specified"),
                    Required(w.Resource, "no webhook resource specified")>>)

ValidateNewWebhook(w) ==
    IF w.nil THEN ValidationErr("nil webhook")
    ELSE FirstErr(<<Required(w.Name, "no webhook name specified"),
                    Required(w.TargetURL, "no webhook target URL specified"),
                    Required(w.Resource, "no webhook resource specified"),
                    Required(w.Event, "no webhook event specified")>>)

ValidateWebhook(w) ==
    IF w.nil THEN ValidationErr("nil webhook")
    ELSE FirstErr(<<Required(w.ID, "no webhook ID specified"),
                    Required(w.Name, "no webhook name specified"),
                    Required(w.TargetURL, "no webhook target URL specified")>>)

\* What an accessor returns once its helper has returned res.  The Delete
\* accessors return the helper's error only; GetPerson and GetWebhook return
\* no record when the decoding fails; the others return the record they
\* decoded into together with the decoding's error.
RecordResult(style, res) ==
    IF style = "error" \/ res.err # NilErr THEN [rec |-> NilRec, err |-> res.err]
    ELSE LET d == UnmarshalRecord(res.bs) IN
         IF style = "record or nil" /\ d.err # NilErr
         THEN [rec |-> NilRec, err |-> d.err]
         ELSE d

\* An accessor whose validation fails returns (nil, verr) at once.
rejected(i, who, verr) ==
    /\ self' = i
    /\ caller' = who
    /\ pc' = "returned"
    /\ lerr' = verr
    /\ rec' = NilRec
    /\ M' = 0
    /\ all' = FALSE
    /\ max' = 0
    /\ uri' = <<>>
    /\ uv' = NoParams
    /\ ret' = <<>>
    /\ err' = NilErr
    /\ bs' = NilBytes
    /\ calls' = 0
    /\ reqs' = <<>>
    /\ resps' = <<>>
    /\ bodies' = <<>>
    /\ items' = <<>>
    /\ UNCHANGED <<clients, httpCli>>

\* clients[i].who(in): the validation gave verr; when that is nil, who calls
\* helper for the URL u and makes its result of the helper's.
accessor(i, who, helper, u, in, verr, style) ==
    /\ pc = "idle"
    /\ i \in DOMAIN clients
    /\ input' = in
    /\ IF verr # NilErr
       THEN rejected(i, who, verr)
       ELSE \E r \in RecordResponses :
              /\ helperCall(i, who, helper, u, NoParams, NoHeader, r)
              /\ LET out == RecordResult(style, HelperResult(helper, u, r)) IN
                 /\ rec' = out.rec
                 /\ lerr' = out.err

GetRoom(i, roomId) ==
    accessor(i, "GetRoom", "getRequest", ItemURL(roomId), [ID |-> roomId],
             Required(roomId, "no room ID specified"), "record")

CreateRoom(i, name, teamID) ==
    accessor(i, "CreateRoom", "postRequest", <<"a">>,
             [Name |-> name, TeamID |-> teamID],
             Required(name, "no room name specified"), "record")

UpdateRoomName(i, roomID, newName) ==
    accessor(i, "UpdateRoomName", "putRequest", ItemURL(roomID),
             [ID |-> roomID, Name |-> newName],
             ValidateUpdateRoomName(roomID, newName), "record")

DeleteRoom(i, roomID) ==
    accessor(i, "DeleteRoom", "deleteRequest", ItemURL(roomID), [ID |-> roomID],
             Required(roomID, "no room ID specified"), "error")

GetMessage(i, messageID) ==
    accessor(i, "GetMessage", "getRequest", ItemURL(messageID),
             [ID |-> messageID],
             Required(messageID, "no message ID specified"), "record")

CreateMessage(i, m) ==
    accessor(i, "CreateMessage", "postRequest", <<"a">>, m,
             ValidateNewMessage(m), "record")

DeleteMessage(i, messageID) ==
    accessor(i, "DeleteMessage", "deleteRequest", ItemURL(messageID),
             [ID |-> messageID],
             Required(messageID, "no message ID specified"), "error")

GetPerson(i, personID) ==
    accessor(i, "GetPerson", "getRequest", ItemURL(personID), [ID |-> personID],
             Required(personID, "no person ID specified"), "record or nil")

CreatePerson(i, p) ==
    accessor(i, "CreatePerson", "postRequest", <<"a">>, p,
             ValidateNewPerson(p), "record")

UpdatePerson(i, p) ==
    accessor(i, "UpdatePerson", "putRequest",
             IF p.nil THEN <<>> ELSE ItemURL(p.ID), p,
             ValidatePerson(p), "record")

DeletePerson(i, ID) ==
    accessor(i, "DeletePerson", "deleteRequest", ItemURL(ID), [ID |-> ID],
             Required(ID, "no person ID specified"), "error")

GetWebhook(i, webhookID) ==
    accessor(i, "GetWebhook", "getRequest", ItemURL(webhookID),
             [ID |-> webhookID],
             Required(webhookID, "no webhook ID specified"), "record or nil")

CreateWebhook(i, w) ==
    accessor(i, "CreateWebhook", "postRequest", <<"a">>, w,
             ValidateNewWebhook(w), "record")

UpdateWebhook(i, w) ==
    accessor(i, "UpdateWebhook", "putRequest",
             IF w.nil THEN <<>> ELSE ItemURL(w.ID), w,
             ValidateWebhook(w), "record")

DeleteWebhook(i, hookID) ==
    accessor(i, "DeleteWebhook", "deleteRequest", ItemURL(hookID),
             [ID |-> hookID],
             Required(hookID, "no webhook ID specified"), "error")

\* clients[i].GetRoomByName(roomName): after the validation, ListRooms(0, nil)
GetRoomByName(i, roomName) ==
    /\ pc = "idle"
    /\ i \in DOMAIN clients
    /\ input' = [Name |-> roomName]
    /\ IF roomName = ""
       THEN rejected(i, "GetRoomByName", ValidationErr("no room name specified"))
       ELSE pagingEntry(i, "GetRoomByName", <<"a">>, NoParams, 0)

\* clients[i].ListMessages(m, roomID, nil): after the validation,
\* getRequestWithPaging with roomId among the parameters.
validatedListMessages(i, m, roomID) ==
    /\ pc = "idle"
    /\ i \in DOMAIN clients
    /\ input' = [ID |-> roomID]
    /\ IF roomID = ""
       THEN rejected(i, "ListMessages", ValidationErr("no room ID specified"))
       ELSE pagingEntry(i, "ListMessages", <<"a">>,
                        [NoParams EXCEPT !["roomId"] = <<roomID>>], m)

\* The arguments the accessors are called with.
IDs == {"", "x"}
RoomNames == {"", "r1", "r3", "zz"}
NewMessages ==
    {NilArg}
    \cup [nil : {FALSE}, RoomID : IDs, ToPersonID : IDs, ToPersonEmail : IDs]
Persons == {NilArg} \cup [nil : {FALSE}, ID : IDs, Emails : {<<>>, <<"e">>}]
NewWebhooks ==
    {NilArg}
    \cup [nil : {FALSE}, Name : IDs, TargetURL : IDs, Resource : IDs, Event : IDs]
Webhooks == {NilArg} \cup [nil : {FALSE}, ID : IDs, Name : IDs, TargetURL : IDs]

\* The pages the transport answers a list request with.
PageResponses ==
    FewResponses
    \cup {Resp(FALSE, FALSE, 200, BodyTwo, NoLink),
          Resp(FALSE, FALSE, 200, BodyBad, NoLink),
          Resp(FALSE, FALSE, 200, BodyOne, LinkNextBad)}

NextAccessors ==
    \/ \E id \in IDs : GetRoom(Len(clients), id)
    \/ \E name \in IDs, teamID \in IDs : CreateRoom(Len(clients), name, teamID)
    \/ \E id \in IDs, name \in IDs : UpdateRoomName(Len(clients), id, name)
    \/ \E id \in IDs : DeleteRoom(Len(clients), id)
    \/ \E name \in RoomNames : GetRoomByName(Len(clients), name)
    \/ \E id \in IDs : GetMessage(Len(clients), id)
    \/ \E m \in NewMessages : CreateMessage(Len(clients), m)
    \/ \E id \in IDs : DeleteMessage(Len(clients), id)
    \/ \E m \in Args, id \in IDs : validatedListMessages(Len(clients), m, id)
    \/ \E id \in IDs : GetPerson(Len(clients), id)
    \/ \E p \in Persons : CreatePerson(Len(clients), p)
    \/ \E p \in Persons : UpdatePerson(Len(clients), p)
    \/ \E id \in IDs : DeletePerson(Len(clients), id)
    \/ \E id \in IDs : GetWebhook(Len(clients), id)
    \/ \E w \in NewWebhooks : CreateWebhook(Len(clients), w)
    \/ \E w \in Webhooks : UpdateWebhook(Len(clients), w)
    \/ \E id \in IDs : DeleteWebhook(Len(clients), id)
    \/ pagingNewRequestFails
    \/ \E r \in PageResponses : pagingRoundTrip(r)

SpecAccessors == Init /\ [][NextAccessors]_vars

\* The paging helper and request, called on the client New returns or on
\* the one derived last.
Next ==
    \/ \E n \in PageMaxes : SetMaxPerPageBeforeCall(n)
    \/ \E u \in {<<"a">>}, h \in {NoHeader, OldHeader} : request(Len(clients), u, h)
    \/ \E a \in DirectArgs : getRequest(Len(clients), a.uri, a.uv)
    \/ \E u \in PlainURIs : postRequest(Len(clients), u)
    \/ \E u \in PlainURIs : putRequest(Len(clients), u)
    \/ \E u \in PlainURIs : deleteRequest(Len(clients), u)
    \/ \E who \in PagingCallers, m \in Args : \E a \in CallArgs(who) :
         getRequestWithPaging(Len(clients), who, a.uri, a.uv, m)
    \/ pagingNewRequestFails
    \/ \E r \in Responses : pagingRoundTrip(r)

Spec == Init /\ [][Next]_vars

(***************************************************************************)
(* Several client values: the client New returns for either token, clients *)
(* derived from it at any moment, and calls through any of them.           *)
(***************************************************************************)
InitClients == InitFor(Tokens)

ClientIds == 1 .. MaxClients

NextClients ==
    \/ \E i \in ClientIds, n \in PageMaxes : SetMaxPerPage(i, n)
    \/ \E i \in ClientIds, h \in {NoHeader, OldHeader} : request(i, <<"a">>, h)
    \/ \E i \in ClientIds, a \in DirectArgs : getRequest(i, a.uri, a.uv)
    \/ \E i \in ClientIds, u \in PlainURIs : postRequest(i, u)
    \/ \E i \in ClientIds, u \in PlainURIs : putRequest(i, u)
    \/ \E i \in ClientIds, u \in PlainURIs : deleteRequest(i, u)
    \/ \E i \in ClientIds, u \in PlainURIs, m \in Args :
         getRequestWithPaging(i, "getRequestWithPaging", u, NoParams, m)
    \/ pagingNewRequestFails
    \/ \E r \in FewResponses : pagingRoundTrip(r)

SpecClients == InitClients /\ [][NextClients]_vars

(***************************************************************************)
(* The package-level transport handle: any code of the package can assign  *)
(* to httpCli at any moment, as the tests' BeforeEach does.                *)
(***************************************************************************)
SwapTransport(t) ==
    /\ httpCli # t
    /\ httpCli' = t
    /\ UNCHANGED <<clients, self, input, uv, pc, caller, M, all, max, uri, ret,
                   err, bs, calls, reqs, resps, bodies, items, lerr, rec>>

NextTransport ==
    \/ \E t \in Transports : SwapTransport(t)
    \/ \E n \in PageMaxes : SetMaxPerPageBeforeCall(n)
    \/ \E h \in {NoHeader, OldHeader} : request(self, <<"a">>, h)
    \/ \E i \in ClientIds, u \in PlainURIs, m \in Args :
         getRequestWithPaging(i, "getRequestWithPaging", u, NoParams, m)
    \/ pagingNewRequestFails
    \/ \E r \in FewResponses : pagingRoundTrip(r)

SpecTransport == Init /\ [][NextTransport]_vars

TypeOK ==
    /\ pc \in {"idle", "loop", "returned", "panicked"}
    /\ calls \in 0 .. MaxCalls
    /\ max \in MinInt .. MaxInt
    /\ Len(reqs) = calls
    /\ Len(resps) = calls
    /\ Len(bodies) = calls
    /\ self \in DOMAIN clients
    /\ Len(clients) <= MaxClients
    /\ httpCli \in Transports

(***************************************************************************)
(* Vocabulary of the properties.                                           *)
(***************************************************************************)
PagingCall == caller \in PagingCallers
Last == resps[Len(resps)]

\* r came back without a transport error, was read, and has status 200/204.
Succeeded(r) == ~r.doErr /\ ~r.readErr /\ r.status \in {200, 204}
Failed(r) == r.doErr \/ r.readErr \/ r.status \notin {200, 204}

\* r's Link header is `<url>; rel="next"` with a URL a request can be
\* built from.
CarriesNext(r) == r.link \in {LinkNextB, LinkNextAfter1, LinkNextAfter2}

\* r's Link header is `<url>; rel="next"`, whatever the URL.
TaggedNext(r) ==
    r.link \in {LinkNextB, LinkNextAfter1, LinkNextAfter2, LinkNextBad}

\* The base URL of the call in progress is one a request can be built from.
BaseOK == calls > 0 \/ ~NewRequestFails(uri)

CeilDiv(m, n) == (m + n - 1) \div n

PageBodies(rs, n) == [i \in 1 .. n |-> rs[i].body]

RECURSIVE DecodedItems(_)
DecodedItems(pages) ==
    IF pages = <<>> THEN <<>>
    ELSE Unmarshal(Head(pages)).items \o DecodedItems(Tail(pages))

Decodable(pages) == \A i \in 1 .. Len(pages) : Unmarshal(pages[i]).err = NilErr

(***************************************************************************)
(* C1: a bounded fetch (M > 0) through a client with ceiling C >= 1, all   *)
(* of whose responses succeed and carry a rel="next" link, has a remaining *)
(* budget of M - k*C after k round trips, and returns after exactly        *)
(* ceil(M / C) round trips with that many pages and a nil error.           *)
(***************************************************************************)
C1_RoundTripsAreCeil ==
    (/\ PagingCall
     /\ M > 0
     /\ c.pageMax >= 1
     /\ BaseOK
     /\ \A i \in 1 .. Len(resps) : Succeeded(resps[i]) /\ CarriesNext(resps[i]))
    => /\ max = M - calls * c.pageMax
       /\ pc # "panicked"
       /\ pc = "returned" =>
            /\ calls = CeilDiv(M, c.pageMax)
            /\ Len(ret) = CeilDiv(M, c.pageMax)
            /\ err = NilErr

C1_Witness ==
    /\ PagingCall
    /\ pc = "returned"
    /\ M = 5
    /\ c.pageMax = 2
    /\ \A i \in 1 .. Len(resps) : Succeeded(resps[i]) /\ CarriesNext(resps[i])
    /\ calls = 3
    /\ Len(ret) = 3
    /\ err = NilErr

(***************************************************************************)
(* C2: an unbounded fetch (M = 0) whose responses all succeed, the first   *)
(* n-1 carrying a rel="next" link and the n-th not, returns n pages and a  *)
(* nil error after exactly n transport calls.                              *)
(***************************************************************************)
C2_StopsAtFirstMissingLink ==
    (/\ PagingCall
     /\ pc \in {"returned", "panicked"}
     /\ M = 0
     /\ calls >= 1
     /\ \A i \in 1 .. calls : Succeeded(resps[i])
     /\ \A i \in 1 .. calls - 1 : TaggedNext(resps[i])
     /\ ~TaggedNext(Last))
    => /\ pc = "returned"
       /\ Len(reqs) = calls
       /\ Len(ret) = calls
       /\ err = NilErr

(***************************************************************************)
(* C3: a failed round trip is the last one; when the k-th round trip fails *)
(* the fetch returns the bodies of pages 1..k-1 in order with a non-nil    *)
(* error; the error is nil only if no round trip failed.                   *)
(***************************************************************************)
C3_PartialResultOnFailure ==
    PagingCall =>
      /\ \A i \in 1 .. Len(resps) - 1 : ~Failed(resps[i])
      /\ (pc = "returned" /\ calls >= 1 /\ Failed(Last)) =>
            /\ ret = PageBodies(resps, calls - 1)
            /\ err # NilErr
      /\ (pc = "returned" /\ err = NilErr) =>
            \A i \in 1 .. Len(resps) : ~Failed(resps[i])

C3_Witness ==
    /\ PagingCall
    /\ pc = "returned"
    /\ calls = 3
    /\ Last.doErr
    /\ ret = PageBodies(resps, 2)
    /\ err = mockErr

(***************************************************************************)
(* C4: a list accessor returns a non-nil error whenever the paged fetch    *)
(* under it returned one.                                                  *)
(***************************************************************************)
C4_ListErrorNotSwallowed ==
    (pc = "returned" /\ caller \in ListCallers /\ err # NilErr)
    => lerr # NilErr

(***************************************************************************)
(* C5: when the paged fetch fails after at least one page, a list accessor *)
(* returns the decoded items of the pages fetched before the failure, in   *)
(* order, together with the error.                                         *)
(***************************************************************************)
C5_PartialItemsKept ==
    (/\ pc = "returned"
     /\ caller \in ListCallers
     /\ err # NilErr
     /\ Len(ret) >= 1
     /\ Decodable(ret))
    => /\ items = DecodedItems(ret)
       /\ lerr # NilErr

(***************************************************************************)
(* C6: a list accessor that was handed a page it cannot decode returns a   *)
(* non-nil error.                                                          *)
(***************************************************************************)
C6_UndecodablePageIsError ==
    (pc = "returned" /\ caller \in ListCallers /\ ~Decodable(ret))
    => lerr # NilErr

(***************************************************************************)
(* C7: the i-th request of a paginated fetch carries max = C in unbounded  *)
(* mode and max = min(C, M - (i-1)*C) in bounded mode, C being the         *)
(* client's page ceiling.                                                  *)
(***************************************************************************)
C7_MaxParameter ==
    PagingCall =>
      \A i \in 1 .. Len(reqs) :
          reqs[i].max = IF M = 0 THEN c.pageMax
                        ELSE Min(c.pageMax, M - (i - 1) * c.pageMax)

C7_Witness ==
    /\ PagingCall
    /\ M = 5
    /\ c.pageMax = 2
    /\ Len(reqs) = 3
    /\ reqs[1].max = 2
    /\ reqs[2].max = 2
    /\ reqs[3].max = 1

(***************************************************************************)
(* C8: on both request paths a response with a status other than 200/204   *)
(* yields an error carrying the status code and the response body text.    *)
(***************************************************************************)
C8_StatusErrorCarriesBody ==
    (/\ pc = "returned"
     /\ (PagingCall \/ caller = "request")
     /\ calls >= 1
     /\ ~Last.doErr
     /\ ~Last.readErr
     /\ Last.status \notin {200, 204})
    => /\ err.kind = "status"
       /\ err.code = Last.status
       /\ err.text = Last.body

(***************************************************************************)
(* C9: a response that was obtained and read is a success exactly when its *)
(* status is 200 or 204: request then returns its body and a nil error,    *)
(* and the fetcher appends its body as the next page; for any other status *)
(* request returns no bytes and an error, and the fetcher appends nothing  *)
(* and returns an error.                                                   *)
(***************************************************************************)
C9_SuccessIff200Or204 ==
    /\ (caller = "request" /\ ~Last.doErr /\ ~Last.readErr) =>
          IF Last.status \in {200, 204}
          THEN bs = Last.body /\ err = NilErr
          ELSE bs = NilBytes /\ err # NilErr
    /\ PagingCall =>
          \A i \in 1 .. Len(resps) :
              (~resps[i].doErr /\ ~resps[i].readErr) =>
                  IF resps[i].status \in {200, 204}
                  THEN Len(ret) >= i /\ ret[i] = resps[i].body
                  ELSE Len(ret) = i - 1 /\ pc = "returned" /\ err # NilErr

C9_Witness ==
    /\ caller = "request"
    /\ ~Last.doErr
    /\ ~Last.readErr
    /\ Last.status = 204
    /\ bs = BodyNone
    /\ err = NilErr

(***************************************************************************)
(* C10: when request or getRequestWithPaging has returned, the body of     *)
(* every response that the transport delivered without an error is closed. *)
(***************************************************************************)
C10_BodiesClosedOnReturn ==
    pc = "returned" =>
      \A i \in 1 .. Len(resps) : ~resps[i].doErr => bodies[i].closed

C10_Witness ==
    /\ PagingCall
    /\ pc = "returned"
    /\ calls = 3
    /\ Last.readErr
    /\ err = readErr
    /\ \A i \in 1 .. 3 : bodies[i].closed

(***************************************************************************)
(* C11: when the last response of a returned call came with a success      *)
(* status but its body could not be read, the error returned by request or *)
(* getRequestWithPaging is the read failure, the response contributes no   *)
(* bytes to the result, and its body is closed.                            *)
(***************************************************************************)
C11_ReadFailureIsTheError ==
    (/\ pc = "returned"
     /\ calls > 0
     /\ ~Last.doErr
     /\ Last.readErr
     /\ Last.status \in {200, 204})
    => /\ err = readErr
       /\ bodies[calls].read
       /\ bodies[calls].closed
       /\ caller \in SingleCallers => bs = NilBytes
       /\ PagingCall => ret = PageBodies(resps, calls - 1)

C11_Witness ==
    /\ PagingCall
    /\ pc = "returned"
    /\ calls = 2
    /\ Succeeded(resps[1])
    /\ ~Last.doErr
    /\ Last.readErr
    /\ Last.status = 200
    /\ err = readErr
    /\ ret = <<resps[1].body>>
    /\ bodies[2].closed

(***************************************************************************)
(* C12: when the last transport call of a returned call failed, request    *)
(* and getRequestWithPaging return the transport's error itself, the body  *)
(* of whatever response came with the error is neither read nor closed,    *)
(* and request returns no bytes.                                           *)
(***************************************************************************)
C12_TransportErrorUntouched ==
    (/\ pc = "returned"
     /\ calls > 0
     /\ Last.doErr)
    => /\ err = mockErr
       /\ ~bodies[calls].read
       /\ ~bodies[calls].closed
       /\ caller \in SingleCallers => bs = NilBytes
       /\ PagingCall => ret = PageBodies(resps, calls - 1)

C12_Witness ==
    /\ caller = "request"
    /\ pc = "returned"
    /\ calls = 1
    /\ Last.doErr
    /\ err = mockErr
    /\ bs = NilBytes
    /\ ~bodies[1].read
    /\ ~bodies[1].closed

(***************************************************************************)
(* C13: every request handed to the transport, whichever helper built it,  *)
(* has exactly one Authorization value, "Bearer " followed by the token of *)
(* the client the call was made through, and exactly one Content-Type      *)
(* value, "application/json; charset=utf-8", whatever values the request   *)
(* had for those headers before.                                           *)
(***************************************************************************)
C13_MandatoryHeaders ==
    \A k \in 1 .. Len(reqs) :
        /\ reqs[k].header["Authorization"] = <<"Bearer " \o c.token>>
        /\ reqs[k].header["Content-Type"] = <<"application/json; charset=utf-8">>

C13_Witness ==
    /\ caller = "request"
    /\ pc = "returned"
    /\ input.header["Authorization"] = <<"Basic old">>
    /\ input.header["Content-Type"] = <<"text/plain">>
    /\ c.token = "tok"
    /\ reqs[1].header["Authorization"] = <<"Bearer tok">>
    /\ reqs[1].header["Content-Type"] = <<"application/json; charset=utf-8">>

(***************************************************************************)
(* C14: an accessor called with a missing required argument (an empty ID   *)
(* or name, a nil record, a record without a required field) returns no    *)
(* record and an error that names an argument that is missing, and no      *)
(* request reaches the transport.                                          *)
(***************************************************************************)
RecordAccessors ==
    {"GetRoom", "CreateRoom", "UpdateRoomName", "DeleteRoom", "GetRoomByName",
     "GetMessage", "CreateMessage", "DeleteMessage", "ListMessages",
     "GetPerson", "CreatePerson", "UpdatePerson", "DeletePerson",
     "GetWebhook", "CreateWebhook", "UpdateWebhook", "DeleteWebhook"}

\* The arguments and fields each accessor requires.
RequiredOf(who) ==
    CASE who \in {"CreateRoom", "GetRoomByName"} -> {"Name"}
      [] who = "UpdateRoomName" -> {"ID", "Name"}
      [] who = "CreateMessage" -> {}
      [] who = "CreatePerson" -> {"Emails"}
      [] who = "CreateWebhook" -> {"Name", "TargetURL", "Resource", "Event"}
      [] who = "UpdateWebhook" -> {"ID", "Name", "TargetURL"}
      [] OTHER -> {"ID"}

\* What is missing in the argument in of who: "nil" for a nil record, "To"
\* for a message without any destination.
MissingOf(who, in) ==
    IF "nil" \in DOMAIN in /\ in.nil THEN {"nil"}
    ELSE {f \in RequiredOf(who) :
            IF f = "Emails" THEN Len(in[f]) = 0 ELSE in[f] = ""}
         \cup (IF /\ who = "CreateMessage"
                  /\ in.RoomID = "" /\ in.ToPersonID = "" /\ in.ToPersonEmail = ""
               THEN {"To"} ELSE {})

\* The argument a validation message speaks of.
NamedIn(msg) ==
    CASE msg \in {"nil message", "nil person", "nil webhook"} -> "nil"
      [] msg \in {"no room ID specified", "no message ID specified",
                  "no person ID specified", "no webhook ID specified"} -> "ID"
      [] msg \in {"no room name specified", "no webhook name specified"} -> "Name"
      [] msg = "no email specified" -> "Emails"
      [] msg = "no webhook target URL specified" -> "TargetURL"
      [] msg = "no webhook resource specified" -> "Resource"
      [] msg = "no webhook event specified" -> "Event"
      [] msg = "message requires a room ID, person ID, or email to send to" -> "To"
      [] OTHER -> "?"

C14_ValidationBeforeIO ==
    (/\ caller \in RecordAccessors
     /\ MissingOf(caller, input) # {})
    => /\ pc = "returned"
       /\ calls = 0
       /\ reqs = <<>>
       /\ rec = NilRec
       /\ items = <<>>
       /\ lerr.kind = "validation"
       /\ NamedIn(lerr.msg) \in MissingOf(caller, input)

C14_Witness ==
    /\ caller = "CreateWebhook"
    /\ pc = "returned"
    /\ ~input.nil
    /\ input.Name = "x"
    /\ input.TargetURL = "x"
    /\ input.Resource = "x"
    /\ input.Event = ""
    /\ lerr = ValidationErr("no webhook event specified")
    /\ rec = NilRec
    /\ calls = 0

(***************************************************************************)
(* C15: in a paginated fetch the first request is for the base URL and the *)
(* request after response k is for the URL in the rel="next" link of       *)
(* response k; every request has the parameters embedded in its URL        *)
(* followed by the caller's, except for max, which has the one value the   *)
(* fetcher computed.  With max = 3 and ceiling 1, and every page carrying  *)
(* a next link, the fetch makes exactly 3 requests.                        *)
(***************************************************************************)
URLAfter1 == <<"a", "?", "max", "=", "9", "&", "after", "=", "1">>
URLAfter2 == <<"a", "?", "max", "=", "9", "&", "after", "=", "2">>
URLWithParams == <<"a", "?", "max", "=", "9", "&", "roomId", "=", "7">>

\* The URL in the next link of response r.
NextURLOf(r) ==
    CASE r.link = LinkNextAfter1 -> URLAfter1
      [] r.link = LinkNextAfter2 -> URLAfter2
      [] OTHER -> <<"b">>

\* The values embedded in URL u for key.
EmbeddedIn(u, key) ==
    CASE u = URLAfter1 /\ key = "after" -> <<"1">>
      [] u = URLAfter2 /\ key = "after" -> <<"2">>
      [] u \in {URLAfter1, URLAfter2, URLWithParams} /\ key = "max" -> <<"9">>
      [] u = URLWithParams /\ key = "roomId" -> <<"7">>
      [] OTHER -> <<>>

C15_FollowsNextLinks ==
    PagingCall =>
      /\ \A k \in 1 .. Len(reqs) :
           /\ k = 1 => reqs[k].uri = input.uri
           /\ k > 1 => /\ CarriesNext(resps[k - 1])
                       /\ reqs[k].uri = NextURLOf(resps[k - 1])
           /\ reqs[k].path = <<Head(reqs[k].uri)>>
           /\ \A key \in ParamKeys \ {"max"} :
                reqs[k].params[key] = EmbeddedIn(reqs[k].uri, key) \o uv[key]
           /\ Len(reqs[k].params["max"]) = 1
      /\ (/\ pc = "returned"
          /\ M = 3
          /\ c.pageMax = 1
          /\ BaseOK
          /\ \A k \in 1 .. Len(resps) : Succeeded(resps[k]) /\ CarriesNext(resps[k]))
         => calls = 3

C15_Witness ==
    /\ caller = "ListMessages"
    /\ pc = "returned"
    /\ M = 3
    /\ c.pageMax = 1
    /\ calls = 3
    /\ resps[1].link = LinkNextAfter1
    /\ resps[2].link = LinkNextAfter2
    /\ reqs[1].uri = <<"a">>
    /\ reqs[1].params["after"] = <<>>
    /\ reqs[2].params["after"] = <<"1">>
    /\ reqs[3].params["after"] = <<"2">>
    /\ \A k \in 1 .. 3 : reqs[k].params["roomId"] = <<"123">>
    /\ err = NilErr

HasNextEntry(link) ==
    \E j \in 1 .. Len(link) : \E i \in 4 .. Len(link[j]) :
        /\ link[j][i] = "N"
        /\ link[j][i - 1] = " "
        /\ link[j][i - 2] = ";"
        /\ link[j][i - 3] = ">"

C17_ContinuesOnAnyNextEntry ==
    (/\ PagingCall
     /\ calls > 0
     /\ Succeeded(Last)
     /\ HasNextEntry(Last.link)
     /\ (all \/ max > 0))
    => ~(pc = "returned" /\ err = NilErr)

(***************************************************************************)
(* C18, as stated: every call of getRequestWithPaging with a base URL a    *)
(* request can be built from, whatever its max, has issued at least one    *)
(* request when it returns.                                                *)
(***************************************************************************)
C18_AlwaysOneRequest ==
    (/\ PagingCall
     /\ pc = "returned"
     /\ ~NewRequestFails(input.uri))
    => calls >= 1

(***************************************************************************)
(* C18, amended: a max of 0 means no limit, the fetch going on for as long *)
(* as pages with a next link come; a call with max >= 0 and a base URL a   *)
(* request can be built from issues at least one request; a call with a    *)
(* negative max issues none and returns no page and a nil error.           *)
(***************************************************************************)
C18_ZeroIsNoLimit ==
    PagingCall =>
      /\ (/\ M = 0
          /\ BaseOK
          /\ \A k \in 1 .. Len(resps) : Succeeded(resps[k]) /\ CarriesNext(resps[k]))
         => pc = "loop" /\ Len(ret) = calls
      /\ (/\ pc = "returned"
          /\ M >= 0
          /\ ~NewRequestFails(input.uri))
         => calls >= 1
      /\ (pc = "returned" /\ M < 0)
         => /\ calls = 0
            /\ ret = <<>>
            /\ err = NilErr

C18_Witness ==
    /\ PagingCall
    /\ pc = "returned"
    /\ M < 0
    /\ ~NewRequestFails(input.uri)
    /\ calls = 0
    /\ reqs = <<>>
    /\ ret = <<>>
    /\ err = NilErr

(***************************************************************************)
(* C19: no step changes a client value that exists: SetMaxPerPage adds a   *)
(* new client with the token of its receiver and the ceiling it was given. *)
(* The client New built keeps its token and the ceiling 50 forever, and    *)
(* the unbounded paginated calls made through it ask for 50 items a page   *)
(* whether another client was derived before, during or after the call.    *)
(***************************************************************************)
C19_ReceiverKept ==
    \A i \in DOMAIN clients :
        /\ i \in DOMAIN clients'
        /\ clients'[i] = clients[i]

C19_NewClientAdded ==
    clients' # clients =>
        \E i \in DOMAIN clients, n \in PageMaxes :
            clients' = Append(clients, [token |-> clients[i].token, pageMax |-> n])

C19_OriginalCeilingUsed ==
    /\ clients[1].pageMax = DefaultPageMax
    /\ clients[1].token \in Tokens
    /\ (PagingCall /\ self = 1 /\ M = 0) =>
         \A k \in 1 .. Len(reqs) : reqs[k].max = DefaultPageMax

C19_SetMaxPerPageKeepsReceiver ==
    /\ []C19_OriginalCeilingUsed
    /\ [][C19_ReceiverKept /\ C19_NewClientAdded]_vars

C19_Witness ==
    /\ Len(clients) = 2
    /\ clients[1] = [token |-> "tok", pageMax |-> DefaultPageMax]
    /\ clients[2] = [token |-> "tok", pageMax |-> 1]
    /\ PagingCall
    /\ self = 1
    /\ pc = "loop"
    /\ M = 0
    /\ calls = 2
    /\ \A k \in 1 .. 2 : reqs[k].max = DefaultPageMax

(***************************************************************************)
(* C20: whatever other code does between or during calls, every request   *)
(* of a client goes to the transport the package was set up with.          *)
(***************************************************************************)
C20_TransportNeverChanges ==
    \A k \in 1 .. Len(reqs) : reqs[k].via = "T1"

(***************************************************************************)
(* C21: GetRoomByName with an empty name makes no request; with a name it  *)
(* lists the rooms without a limit and returns the first room of the       *)
(* listing, in page order, that has the name as its title; it returns the  *)
(* "no room with name" error only when the listing is complete (the fetch  *)
(* under it ended without an error) and no room of it has that title.      *)
(***************************************************************************)
C21_FirstMatchOfCompleteListing ==
    caller = "GetRoomByName" =>
      /\ input.Name = "" => (pc = "returned" /\ calls = 0 /\ reqs = <<>>)
      /\ input.Name # "" => (M = 0 /\ all)
      /\ (pc = "returned" /\ input.Name # "" /\ lerr = NilErr) =>
            /\ rec # NilRec
            /\ rec = FirstTitled(DecodedItems(ret), input.Name)
      /\ (pc = "returned" /\ lerr.kind = "notfound") =>
            /\ err = NilErr
            /\ FirstTitled(DecodedItems(ret), input.Name) = NilRec

(***************************************************************************)
(* C22: when every page the fetch handed to a list accessor decodes, the   *)
(* accessor returns the items of page 1, then those of page 2, and so on,  *)
(* each page's items in the order the page has them; as many items as the  *)
(* pages have together.                                                    *)
(***************************************************************************)
RECURSIVE ItemCount(_)
ItemCount(pages) ==
    IF pages = <<>> THEN 0
    ELSE Len(Unmarshal(Head(pages)).items) + ItemCount(Tail(pages))

C22_ItemsAreConcatenation ==
    (/\ pc = "returned"
     /\ caller \in ListCallers
     /\ Decodable(ret))
    => /\ items = DecodedItems(ret)
       /\ Len(items) = ItemCount(ret)

(***************************************************************************)
(* C23: CreateMessage sends a request exactly when one and only one of     *)
(* RoomID, ToPersonID and ToPersonEmail is set; with none or with several  *)
(* of them set it returns a validation error and no record, and no request *)
(* reaches the transport.                                                  *)
(***************************************************************************)
\* How many of the three destinations the message m names.
Destinations(m) ==
    Cardinality({f \in {"RoomID", "ToPersonID", "ToPersonEmail"} : m[f] # ""})

C23_ExactlyOneDestination ==
    (/\ caller = "CreateMessage"
     /\ pc = "returned"
     /\ ~input.nil)
    => /\ calls > 0 <=> Destinations(input) = 1
       /\ Destinations(input) # 1 =>
            /\ reqs = <<>>
            /\ rec = NilRec
            /\ lerr.kind = "validation"

(***************************************************************************)
(* C24: a bounded fetch (M > 0) ends after finitely many round trips even  *)
(* when every response carries a next link, whatever the ceiling of the    *)
(* client.  The loop is controlled by the remaining budget alone, a Go int *)
(* of finite width that every round trip moves by the ceiling: the fetch   *)
(* ends exactly when no budget recurs, that is, when every round trip that *)
(* leads back to the head of the loop leaves a budget other than the one   *)
(* it found.                                                               *)
(***************************************************************************)
C24_BoundedFetchTerminates ==
    [][(/\ PagingCall
        /\ M > 0
        /\ pc = "loop"
        /\ pc' = "loop") => max' # max]_vars

(***************************************************************************)
(* C25: every request of a paginated fetch has exactly one value for the   *)
(* max parameter, the decimal text of the page size the fetcher computed   *)
(* for it, whatever values for max the base URL, the next link or the      *)
(* caller's parameters had; for every other key the request has the values *)
(* of its URL followed by the caller's.                                    *)
(***************************************************************************)
\* The page size of the k-th request of the call in progress.
ComputedMax(k) ==
    IF M = 0 THEN c.pageMax ELSE Min(c.pageMax, M - (k - 1) * c.pageMax)

C25_SingleMaxValue ==
    PagingCall =>
      \A k \in 1 .. Len(reqs) :
          /\ reqs[k].params["max"] = <<ToString(ComputedMax(k))>>
          /\ \A key \in ParamKeys \ {"max"} :
               reqs[k].params[key] = EmbeddedIn(reqs[k].uri, key) \o uv[key]

C25_Witness ==
    /\ caller = "getRequestWithPaging"
    /\ M = 3
    /\ c.pageMax = 2
    /\ calls = 2
    /\ input.uri = URLWithParams
    /\ uv["max"] = <<"8">>
    /\ uv["roomId"] = <<"5">>
    /\ resps[1].link = LinkNextAfter1
    /\ reqs[1].params["max"] = <<"2">>
    /\ reqs[1].params["roomId"] = <<"7", "5">>
    /\ reqs[2].uri = URLAfter1
    /\ reqs[2].params["max"] = <<"1">>
    /\ reqs[2].params["after"] = <<"1">>
    /\ reqs[2].params["roomId"] = <<"5">>

C27_NeverCrashes ==
    /\ pc # "panicked"
    /\ (PagingCall /\ calls > 0 /\ Succeeded(Last)) => pc \in {"loop", "returned"}

(***************************************************************************)
(* C28: during a paginated fetch at most one response body is open (handed *)
(* over by the transport and not closed), and whenever the fetch stands at *)
(* the head of its loop, about to make the next transport call, the bodies *)
(* of all pages so far are closed.                                         *)
(***************************************************************************)
\* The transport calls whose response body is open.
OpenBodies == {i \in 1 .. Len(bodies) : ~resps[i].doErr /\ ~bodies[i].closed}

C28_AtMostOneBodyOpen ==
    PagingCall =>
      /\ Cardinality(OpenBodies) <= 1
      /\ pc = "loop" => OpenBodies = {}

(***************************************************************************)
(* C29: an accessor that returns one record (the Get, Create and Update    *)
(* operations) returns no record whenever it returns an error, whether the *)
(* error comes from the validation, the transport, the status or the       *)
(* decoding of the response body.                                          *)
(***************************************************************************)
RecordReturning ==
    {"GetRoom", "CreateRoom", "UpdateRoomName", "GetMessage", "CreateMessage",
     "GetPerson", "CreatePerson", "UpdatePerson",
     "GetWebhook", "CreateWebhook", "UpdateWebhook"}

C29_NoRecordWithError ==
    (/\ caller \in RecordReturning
     /\ pc = "returned"
     /\ lerr # NilErr)
    => rec = NilRec

(***************************************************************************)
(* C30: the body is read before the status is judged: when the last        *)
(* response of a returned call has a status other than 200/204 and its     *)
(* body could not be read, request and getRequestWithPaging return the     *)
(* read failure and not an error about the status; the body was read from  *)
(* and is closed, and the response adds no bytes and no page.              *)
(***************************************************************************)
C30_ReadBeforeStatus ==
    (/\ pc = "returned"
     /\ caller \in SingleCallers \cup PagingCallers
     /\ calls > 0
     /\ ~Last.doErr
     /\ Last.readErr
     /\ Last.status \notin {200, 204})
    => /\ err = readErr
       /\ err.kind # "status"
       /\ bodies[calls].read
       /\ bodies[calls].closed
       /\ caller \in SingleCallers => bs = NilBytes
       /\ PagingCall => Len(ret) = calls - 1

C30_Witness ==
    /\ caller = "request"
    /\ pc = "returned"
    /\ calls = 1
    /\ ~Last.doErr
    /\ Last.readErr
    /\ Last.status = 500
    /\ err = readErr
    /\ bs = NilBytes

====
